---------------------------- MODULE Spec2Model ----------------------------
(***************************************************************************)
(* Recipe catalog of chef-virtual-michelle: the text normalizer, the       *)
(* ReceitaAdapter conversions, the Supabase-backed ReceitasDB operations   *)
(* (add, clear, search, free-text search, lookup by id, export), the retry *)
(* decorator and the one-hour result cache, as written in                  *)
(* src/database_supabase.py; the SQLite catalog of src/database.py; the    *)
(* Markdown import of src/import_md.py; and the recipe validation and the  *)
(* chat turn of src/main.py.                                               *)
(*                                                                         *)
(* Python strings are sequences of one-character strings.  Python values   *)
(* that a dict may hold are tagged records [t, s, l]: t is the type, s the *)
(* text of a str, l the entries of a list of str.                          *)
(***************************************************************************)
EXTENDS Naturals, Sequences, FiniteSets

VARIABLES
    catalog,    \* the rows of the store's table receitas, in store order
    origin,     \* per row: the record adicionar_receita was called with
    nextId,     \* the next identifier the store assigns
    last,       \* the last ReceitasDB call: its arguments and what it returned
    cache,      \* st.cache_data entries of buscar_receitas_cached
    now,        \* the clock the cache reads
    arg,        \* the input of the pure function under check
    res,        \* the results of the pure function under check
    stage,      \* how far the pure function pipeline has run
    found,      \* history: the records the searches returned since the catalog
                \* was last cleared, kept where found.on holds
    sqlite,     \* the tables of the SQLite catalog of src/database.py
    session     \* st.session_state of the chat: messages and user_input

vars == <<catalog, origin, nextId, last, cache, now, arg, res, stage, found, sqlite,
          session>>

----------------------------------------------------------------------------
(* Bounds of the model.                                                    *)

MaxRows == 2
MaxIds == 3
MaxEntries == 4
MaxPieces == 3
MaxCapRows == 11
MaxClock == 7200
TickStep == 1800

----------------------------------------------------------------------------
(* Python str methods.                                                     *)

LowerLetters == <<"a","b","c","d","e","f","g","h","i","j","k","l","m",
                  "n","o","p","q","r","s","t","u","v","w","x","y","z","ó">>
UpperLetters == <<"A","B","C","D","E","F","G","H","I","J","K","L","M",
                  "N","O","P","Q","R","S","T","U","V","W","X","Y","Z","Ó">>
DigitChars == <<"0","1","2","3","4","5","6","7","8","9">>

Range(f) == {f[i] : i \in DOMAIN f}

isspace(c) == c \in {" ", "\n", "\t"}

LowerSet == Range(LowerLetters)
UpperSet == Range(UpperLetters)
AlnumSet == LowerSet \cup UpperSet \cup Range(DigitChars)

UpperOf == [c \in LowerSet |-> UpperLetters[CHOOSE i \in DOMAIN LowerLetters : LowerLetters[i] = c]]
LowerOf == [c \in UpperSet |-> LowerLetters[CHOOSE i \in DOMAIN UpperLetters : UpperLetters[i] = c]]

isalnum(c) == c \in AlnumSet

upper_char(c) == IF c \in LowerSet THEN UpperOf[c] ELSE c

lower_char(c) == IF c \in UpperSet THEN LowerOf[c] ELSE c

upper(s) == [i \in 1..Len(s) |-> upper_char(s[i])]

lower(s) == [i \in 1..Len(s) |-> lower_char(s[i])]

RECURSIVE lstrip(_)
lstrip(s) == IF s # <<>> /\ isspace(Head(s)) THEN lstrip(Tail(s)) ELSE s

RECURSIVE rstrip(_)
rstrip(s) ==
    IF s # <<>> /\ isspace(s[Len(s)]) THEN rstrip(SubSeq(s, 1, Len(s) - 1)) ELSE s

strip(s) == rstrip(lstrip(s))

(* s.split(sep) for a one-character sep: empty pieces are kept. *)
RECURSIVE split_on(_, _, _)
split_on(s, sep, cur) ==
    IF s = <<>> THEN <<cur>>
    ELSE IF Head(s) = sep THEN <<cur>> \o split_on(Tail(s), sep, <<>>)
    ELSE split_on(Tail(s), sep, Append(cur, Head(s)))

split(s, sep) == split_on(s, sep, <<>>)

(* s.split(): runs of whitespace separate, no empty pieces. *)
RECURSIVE split_ws_on(_, _)
split_ws_on(s, cur) ==
    IF s = <<>> THEN (IF cur = <<>> THEN <<>> ELSE <<cur>>)
    ELSE IF isspace(Head(s))
         THEN (IF cur = <<>> THEN <<>> ELSE <<cur>>) \o split_ws_on(Tail(s), <<>>)
         ELSE split_ws_on(Tail(s), Append(cur, Head(s)))

split_ws(s) == split_ws_on(s, <<>>)

RECURSIVE join(_, _)
join(sep, parts) ==
    IF parts = <<>> THEN <<>>
    ELSE IF Len(parts) = 1 THEN Head(parts)
    ELSE Head(parts) \o sep \o join(sep, Tail(parts))

(* [x.strip() for x in lines if x.strip()] *)
RECURSIVE stripped_nonempty(_)
stripped_nonempty(lines) ==
    IF lines = <<>> THEN <<>>
    ELSE (IF strip(Head(lines)) # <<>> THEN <<strip(Head(lines))>> ELSE <<>>)
             \o stripped_nonempty(Tail(lines))

(* list(dict.fromkeys(seq)): duplicates removed, first-seen order kept. *)
RECURSIVE fromkeys(_, _)
fromkeys(seq, seen) ==
    IF seq = <<>> THEN <<>>
    ELSE IF Head(seq) \in seen THEN fromkeys(Tail(seq), seen)
    ELSE <<Head(seq)>> \o fromkeys(Tail(seq), seen \cup {Head(seq)})

Contains(text, part) ==
    \E i \in 0..(Len(text) - Len(part)) : SubSeq(text, i + 1, i + Len(part)) = part

(* All sequences over S of length at most n. *)
SeqsUpTo(S, n) == UNION {[1..k -> S] : k \in 0..n}

----------------------------------------------------------------------------
(* Python values.                                                          *)

Missing == [t |-> "missing", s |-> <<>>, l |-> <<>>]
PyNone == [t |-> "none", s |-> <<>>, l |-> <<>>]
PyStr(s) == [t |-> "str", s |-> s, l |-> <<>>]
PyList(l) == [t |-> "list", s |-> <<>>, l |-> l]

NoneDict == [t |-> "none"]
EmptyDict == [t |-> "empty"]

(* d.get(key): Missing stands for an absent key. *)
Field(d, key) == IF d.t = "dict" THEN d[key] ELSE Missing

(* d.get(key, default) *)
Get(d, key, default) == IF Field(d, key).t = "missing" THEN default ELSE Field(d, key)

(* repr() of a str inside a list: quoted, the newline escaped. *)
RECURSIVE repr_chars(_)
repr_chars(s) ==
    IF s = <<>> THEN <<>>
    ELSE (IF Head(s) = "\n" THEN <<"\\", "n">> ELSE <<Head(s)>>) \o repr_chars(Tail(s))

repr_list(l) ==
    <<"[">> \o join(<<",", " ">>, [i \in 1..Len(l) |-> <<"'">> \o repr_chars(l[i]) \o <<"'">>])
        \o <<"]">>

(* str(v) *)
str(v) ==
    CASE v.t = "str" -> v.s
      [] v.t = "none" -> <<"N", "o", "n", "e">>
      [] v.t = "list" -> repr_list(v.l)
      [] OTHER -> <<>>

----------------------------------------------------------------------------
(* The text normalizer.                                                    *)

normalize_text(text) == IF text = <<>> THEN <<>> ELSE lower(strip(text))

stop_words == {
    <<"o">>, <<"q","u","e">>, <<"o","s">>, <<"a","s">>, <<"u","m">>,
    <<"u","n","s">>, <<"u","m","a">>, <<"u","m","a","s">>, <<"c","o","m">>,
    <<"p","a","r","a">>, <<"p","o","r">>, <<"e","m">>, <<"n","o">>,
    <<"n","a">>, <<"n","o","s">>, <<"n","a","s">>, <<"d","o">>, <<"d","a">>,
    <<"d","o","s">>, <<"d","a","s">>, <<"p","o","s","s","o">>,
    <<"p","o","d","e">>, <<"f","a","z","e","r">>, <<"c","o","m","o">>,
    <<"o","n","d","e">>, <<"q","u","a","n","d","o">>, <<"q","u","a","l">>,
    <<"q","u","a","i","s">>, <<"a","o","n","d","e">>,
    <<"p","o","r","q","u","e">>, <<"p","o","r"," ","q","u","e">>,
    <<"u","s","a","r">>, <<"u","s","o">>, <<"d","e">>, <<"e">>, <<"o","u">>,
    <<"m","a","s">>, <<"p","o","r","e","m">>, <<"e","n","t","a","o">>,
    <<"a","s","s","i","m">>, <<"p","o","i","s">>
}

(* ''.join(c for c in query if c.isalnum() or c.isspace()) *)
RECURSIVE remove_punctuation(_)
remove_punctuation(query) ==
    IF query = <<>> THEN <<>>
    ELSE (IF isalnum(Head(query)) \/ isspace(Head(query)) THEN <<Head(query)>> ELSE <<>>)
             \o remove_punctuation(Tail(query))

RECURSIVE remove_stop_words(_)
remove_stop_words(words) ==
    IF words = <<>> THEN <<>>
    ELSE (IF Head(words) \notin stop_words THEN <<Head(words)>> ELSE <<>>)
             \o remove_stop_words(Tail(words))

clean_search_query(query) ==
    LET unpunctuated == remove_punctuation(query)
        words == split_ws(normalize_text(unpunctuated))
        cleaned_words == remove_stop_words(words)
    IN  IF cleaned_words = <<>>
        THEN normalize_text(unpunctuated)
        ELSE join(<<" ">>, cleaned_words)

----------------------------------------------------------------------------
(* ReceitaAdapter.  A dict carries the fields id, titulo, descricao,       *)
(* ingredientes and modo_preparo; the other scalar fields of the source    *)
(* (tempo_preparo, porcoes, dificuldade, harmonizacao) are converted       *)
(* exactly as descricao is.                                                *)

Dict(id, titulo, descricao, ingredientes, modo_preparo) ==
    [t |-> "dict", id |-> id, titulo |-> titulo, descricao |-> descricao,
     ingredientes |-> ingredientes, modo_preparo |-> modo_preparo]

(* '\n'.join(v) if isinstance(v, list) else str(d.get(key, '')) *)
lines_to_text(d, key) ==
    IF Field(d, key).t = "list"
    THEN join(<<"\n">>, Field(d, key).l)
    ELSE str(Get(d, key, PyStr(<<>>)))

to_db_format(receita_chat) ==
    IF receita_chat.t = "none"
    THEN EmptyDict
    ELSE Dict(Missing,
              PyStr(upper(strip(str(Get(receita_chat, "titulo", PyStr(<<>>)))))),
              PyStr(strip(str(Get(receita_chat, "descricao", PyStr(<<>>))))),
              PyStr(strip(lines_to_text(receita_chat, "ingredientes"))),
              PyStr(strip(lines_to_text(receita_chat, "modo_preparo"))))

(* The cleaned lines of a stored text field; a value that is no str gives []. *)
text_to_lines(raw) ==
    IF raw.t = "str"
    THEN fromkeys(stripped_nonempty(split(raw.s, "\n")), {})
    ELSE <<>>

to_chat_format(receita_db) ==
    IF receita_db.t = "none"
    THEN NoneDict
    ELSE LET receita_id == strip(str(Get(receita_db, "id", PyStr(<<>>))))
         IN  IF receita_id = <<>>
             THEN NoneDict
             ELSE Dict(PyStr(receita_id),
                       PyStr(upper(strip(str(Get(receita_db, "titulo", PyStr(<<>>)))))),
                       PyStr(strip(str(Get(receita_db, "descricao", PyStr(<<>>))))),
                       PyList(text_to_lines(Get(receita_db, "ingredientes", PyStr(<<>>)))),
                       PyList(text_to_lines(Get(receita_db, "modo_preparo", PyStr(<<>>)))))

----------------------------------------------------------------------------
(* The store: the hosted table receitas behind self.supabase.  It assigns  *)
(* the id of an inserted row; every row carries the default created_at.    *)

StopAfterAttempt == 3

(* The text of the n-th identifier the store assigns. *)
RECURSIVE id_text(_)
id_text(n) ==
    IF n < 10 THEN <<DigitChars[n + 1]>>
    ELSE id_text(n \div 10) \o <<DigitChars[(n % 10) + 1]>>

(* PostgreSQL LIKE on lower-cased text: the percent sign, and the star    *)
(* PostgREST reads as its alias, stand for any run of characters, the      *)
(* underscore for any one character.                                       *)
RECURSIVE like(_, _)
like(text, pattern) ==
    IF pattern = <<>> THEN text = <<>>
    ELSE IF Head(pattern) \in {"%", "*"}
         THEN like(text, Tail(pattern)) \/ (text # <<>> /\ like(Tail(text), pattern))
         ELSE /\ text # <<>>
              /\ Head(pattern) = "_" \/ Head(pattern) = Head(text)
              /\ like(Tail(text), Tail(pattern))

(* .ilike(column, pattern) on one row: a NULL column matches nothing. *)
ilike(row, column, pattern) ==
    /\ Field(row, column).t = "str"
    /\ like(lower(Field(row, column).s), lower(pattern))

RECURSIVE select_ilike(_, _, _)
select_ilike(rows, column, pattern) ==
    IF rows = <<>> THEN <<>>
    ELSE (IF ilike(Head(rows), column, pattern) THEN <<Head(rows)>> ELSE <<>>)
             \o select_ilike(Tail(rows), column, pattern)

----------------------------------------------------------------------------
(* ReceitasDB.                                                             *)

(* [ReceitaAdapter.to_chat_format(r) for r in data if r], None values removed. *)
RECURSIVE converted(_)
converted(data) ==
    IF data = <<>> THEN <<>>
    ELSE LET receita == IF Head(data).t = "dict" THEN to_chat_format(Head(data)) ELSE NoneDict
         IN  (IF receita.t = "dict" THEN <<receita>> ELSE <<>>) \o converted(Tail(data))

(* The body of buscar_receitas under its try/except: one store round-trip. *)
buscar_receitas_body(rows, query, store_raises) ==
    IF store_raises
    THEN [raised |-> FALSE, value |-> <<>>]
    ELSE [raised |-> FALSE,
          value |-> converted(IF query = <<>>
                              THEN rows
                              ELSE select_ilike(rows, "titulo",
                                       <<"%">> \o upper(strip(query)) \o <<"%">>))]

(* @retry(stop=stop_after_attempt(3), ...): the body is called again while *)
(* it raises, at most StopAfterAttempt times; raises[n] tells whether the  *)
(* store round-trip of the n-th attempt raises.                            *)
RECURSIVE retry(_, _, _, _)
retry(rows, query, raises, attempt) ==
    LET outcome == buscar_receitas_body(rows, query, raises[attempt])
    IN  IF ~outcome.raised
        THEN [raised |-> FALSE, value |-> outcome.value, attempts |-> attempt]
        ELSE IF attempt >= StopAfterAttempt
             THEN [raised |-> TRUE, value |-> <<>>, attempts |-> attempt]
             ELSE retry(rows, query, raises, attempt + 1)

buscar_receitas(rows, query, raises) == retry(rows, query, raises, 1)

(* buscar_receitas_por_texto asking for the ingredient hits whatever the  *)
(* title lookup gave, and returning both.                                  *)
buscar_receitas_por_texto_merging(rows, query, raises) ==
    IF query = <<>>
    THEN [value |-> <<>>, attempts |-> 0]
    ELSE LET pattern == <<"%">> \o clean_search_query(query) \o <<"%">>
         IN  IF raises[1] \/ raises[2]
             THEN [value |-> <<>>, attempts |-> IF raises[1] THEN 1 ELSE 2]
             ELSE [value |-> converted(select_ilike(rows, "titulo", pattern)
                                       \o select_ilike(rows, "ingredientes", pattern)),
                   attempts |-> 2]

(* The rows the free-text search keeps: the title hits, or, when there is  *)
(* none, the ingredient hits.  attempts counts the store round-trips.     *)
buscar_receitas_por_texto(rows, query, raises) ==
    IF query = <<>>
    THEN [value |-> <<>>, attempts |-> 0]
    ELSE LET pattern == <<"%">> \o clean_search_query(query) \o <<"%">>
             by_title == select_ilike(rows, "titulo", pattern)
         IN  IF raises[1]
             THEN [value |-> <<>>, attempts |-> 1]
             ELSE IF by_title # <<>>
                  THEN [value |-> converted(by_title), attempts |-> 1]
                  ELSE IF raises[2]
                       THEN [value |-> <<>>, attempts |-> 2]
                       ELSE [value |-> converted(select_ilike(rows, "ingredientes", pattern)),
                             attempts |-> 2]

(* [ReceitaAdapter.to_chat_format(receita) for receita in data.data] *)
exportar_receitas(rows, store_raises) ==
    IF store_raises
    THEN <<>>
    ELSE [i \in 1..Len(rows) |-> to_chat_format(rows[i])]

(* not value: None, an absent key read with get(key), '' and [] are falsy. *)
falsy(v) ==
    \/ v.t \in {"missing", "none"}
    \/ v.t = "str" /\ v.s = <<>>
    \/ v.t = "list" /\ v.l = <<>>

(* seq[:n] *)
take(seq, n) == SubSeq(seq, 1, IF Len(seq) < n THEN Len(seq) ELSE n)

PreviewLen == 3

(* The preview of _criar_resumo_receita: the first three cleaned lines,   *)
(* and '...' when the text splits into more than three lines.             *)
preview_ingredientes(raw) ==
    IF raw.t = "str"
    THEN take(stripped_nonempty(split(raw.s, "\n")), PreviewLen)
             \o (IF Len(split(raw.s, "\n")) > PreviewLen THEN <<<<".", ".", ".">>>> ELSE <<>>)
    ELSE <<>>

Resumo(id, titulo, descricao, preview) ==
    [t |-> "resumo", id |-> id, titulo |-> titulo, descricao |-> descricao,
     preview_ingredientes |-> preview]

(* ReceitasDB._criar_resumo_receita *)
criar_resumo_receita(receita) ==
    IF receita.t = "none"
    THEN NoneDict
    ELSE IF falsy(Field(receita, "id"))
         THEN NoneDict
         ELSE LET receita_id == strip(str(Field(receita, "id")))
                  titulo == upper(strip(str(Get(receita, "titulo", PyStr(<<>>)))))
              IN  IF titulo = <<>>
                  THEN NoneDict
                  ELSE Resumo(receita_id, titulo,
                              strip(str(Get(receita, "descricao", PyStr(<<>>)))),
                              preview_ingredientes(Get(receita, "ingredientes", PyStr(<<>>))))

----------------------------------------------------------------------------
(* Inputs.                                                                 *)

(* Whether the n-th store round-trip of a call raises. *)
RaisePatterns ==
    {[n \in 1..StopAfterAttempt |-> FALSE],
     [n \in 1..StopAfterAttempt |-> TRUE],
     [n \in 1..StopAfterAttempt |-> n = 2]}

(* The same for a call that makes one round-trip. *)
RaiseOnce == {[n \in 1..StopAfterAttempt |-> b] : b \in BOOLEAN}

AddTitles == {<<"B", "o">>, <<" ", "a", "b">>}

AddIngredients == {<<<<"b", "o">>>>, <<<<"a", " ">>, <<>>, <<"a">>>>}

(* What adicionar_receita is called with: a title and an ingredient list, *)
(* or None.                                                               *)
AddInputs ==
    {Dict(Missing, PyStr(titulo), Missing, PyList(ingredientes), PyList(<<<<"x">>>>)) :
        titulo \in AddTitles, ingredientes \in AddIngredients} \cup {NoneDict}

Queries == {<<>>, <<"b", "o">>, <<" ", "A">>, <<"_">>}

TextQueries == {<<>>, <<"a">>, <<"o", " ", "b", "o", "?">>}

(* The ids looked up: those the store assigns, and one it never assigns.   *)
LookupIds == {id_text(n) : n \in 1..MaxIds} \cup {<<"x">>}

(* Rows of the hosted table that no adicionar_receita call wrote.  The    *)
(* program neither creates nor checks the table (criar_tabelas only       *)
(* documents it), so what a row holds is the store's choice; the row here *)
(* is one without a usable id, the case to_chat_format tests for.         *)
ExternalRows ==
    {Dict(PyStr(<<>>), PyStr(<<"B", "O">>), PyNone, PyStr(<<"a">>), PyStr(<<"x">>))}

----------------------------------------------------------------------------
(* The calls of ReceitasDB as actions.                                     *)

(* The SQLite catalog after criar_tabelas: the tables are empty.  The     *)
(* fields receitas, dicas and beneficios_funcionais are the tables as the *)
(* connection self.conn sees them, the rows of its open transaction       *)
(* included; durable is what the last commit wrote to the file; failed is *)
(* history, the receita ids given out by the calls that returned False.   *)
SqliteEmpty ==
    [receitas |-> <<>>, dicas |-> <<>>, beneficios_funcionais |-> <<>>, lastrowid |-> 0,
     durable |-> [receitas |-> <<>>, dicas |-> <<>>, beneficios_funcionais |-> <<>>],
     failed |-> {}]

NoHistory == [on |-> FALSE, records |-> {}]

(* The history after a search returned these records. *)
Noted(history, records) ==
    IF history.on THEN [history EXCEPT !.records = @ \cup records] ELSE history

NoRaises == [n \in 1..StopAfterAttempt |-> FALSE]

Call(op, query, raises, ret, ok, attempts, raised) ==
    [op |-> op, query |-> query, raises |-> raises, ret |-> ret, ok |-> ok,
     attempts |-> attempts, raised |-> raised]

NoCall == Call("none", <<>>, NoRaises, <<>>, TRUE, 0, FALSE)

(* st.session_state after init_session_state (src/main.py). *)
init_session_state == [messages |-> <<>>, user_input |-> <<>>]

PureIdle ==
    /\ arg = NoneDict /\ res = NoneDict /\ stage = "off" /\ session = init_session_state

(* adicionar_receita writing over the oldest stored row, which keeps its  *)
(* id, instead of inserting a new one.                                     *)
AdicionarReceitaOverwriting(receita, raises, max_rows, max_ids) ==
    LET receita_db == to_db_format(receita)
        inserted == receita_db.t = "dict" /\ ~raises[1]
    IN  /\ Len(catalog) < max_rows
        /\ nextId <= max_ids
        /\ catalog' = IF ~inserted THEN catalog
                      ELSE IF catalog = <<>>
                           THEN <<[receita_db EXCEPT !.id = PyStr(id_text(nextId))]>>
                           ELSE [catalog EXCEPT ![1] = [receita_db EXCEPT !.id = catalog[1].id]]
        /\ origin' = IF inserted /\ catalog = <<>>
                     THEN <<[ext |-> FALSE, chat |-> receita]>>
                     ELSE origin
        /\ nextId' = IF inserted THEN nextId + 1 ELSE nextId
        /\ last' = Call("adicionar_receita", <<>>, raises, <<>>, inserted,
                        IF receita_db.t = "dict" THEN 1 ELSE 0, FALSE)
        /\ UNCHANGED <<cache, now, arg, res, stage, found, sqlite, session>>

(* adicionar_receita: convert, insert, True; False when the conversion    *)
(* gives {} or the insert raises.                                          *)
AdicionarReceitaAte(receita, raises, max_rows, max_ids) ==
    LET receita_db == to_db_format(receita)
        inserted == receita_db.t = "dict" /\ ~raises[1]
    IN  /\ Len(catalog) < max_rows
        /\ nextId <= max_ids
        /\ catalog' = IF inserted
                      THEN Append(catalog, [receita_db EXCEPT !.id = PyStr(id_text(nextId))])
                      ELSE catalog
        /\ origin' = IF inserted
                     THEN Append(origin, [ext |-> FALSE, chat |-> receita])
                     ELSE origin
        /\ nextId' = IF inserted THEN nextId + 1 ELSE nextId
        /\ last' = Call("adicionar_receita", <<>>, raises, <<>>, inserted,
                        IF receita_db.t = "dict" THEN 1 ELSE 0, FALSE)
        /\ UNCHANGED <<cache, now, arg, res, stage, found, sqlite, session>>

AdicionarReceita(receita, raises) == AdicionarReceitaAte(receita, raises, MaxRows, MaxIds)

(* limpar_banco: delete every row with created_at >= 2000-01-01. *)
LimparBanco(raises) ==
    /\ catalog' = IF raises[1] THEN catalog ELSE <<>>
    /\ origin' = IF raises[1] THEN origin ELSE <<>>
    /\ found' = IF raises[1] THEN found ELSE [found EXCEPT !.records = {}]
    /\ last' = Call("limpar_banco", <<>>, raises, <<>>, ~raises[1], 1, FALSE)
    /\ UNCHANGED <<nextId, cache, now, arg, res, stage, sqlite, session>>

(* A row written to the hosted table from outside the program. *)
StoreExternalRow(row) ==
    /\ Len(catalog) < MaxRows
    /\ \A i \in 1..Len(catalog) : catalog[i].id # row.id
    /\ catalog' = Append(catalog, row)
    /\ origin' = Append(origin, [ext |-> TRUE, chat |-> NoneDict])
    /\ last' = NoCall
    /\ UNCHANGED <<nextId, cache, now, arg, res, stage, found, sqlite, session>>

BuscarReceitas(query, raises) ==
    LET out == buscar_receitas(catalog, query, raises)
    IN  /\ last' = Call("buscar_receitas", query, raises, out.value, ~out.raised,
                        out.attempts, out.raised)
        /\ found' = Noted(found, Range(out.value))
        /\ UNCHANGED <<catalog, origin, nextId, cache, now, arg, res, stage, sqlite, session>>

BuscarReceitasPorTexto(query, raises) ==
    LET out == buscar_receitas_por_texto(catalog, query, raises)
    IN  /\ last' = Call("buscar_receitas_por_texto", query, raises, out.value, TRUE,
                        out.attempts, FALSE)
        /\ found' = Noted(found, Range(out.value))
        /\ UNCHANGED <<catalog, origin, nextId, cache, now, arg, res, stage, sqlite, session>>

(* buscar_receita_por_id without the eq('id', receita_id) filter. *)
buscar_receita_por_id_unfiltered(rows, receita_id, store_raises) ==
    IF store_raises \/ rows = <<>>
    THEN NoneDict
    ELSE to_chat_format(rows[1])

(* buscar_receita_por_id: the row with that id, converted; None when      *)
(* there is none or the round-trip raises.                                 *)
buscar_receita_por_id(rows, receita_id, store_raises) ==
    LET data == SelectSeq(rows, LAMBDA row : row.id = PyStr(receita_id))
    IN  IF store_raises \/ data = <<>>
        THEN NoneDict
        ELSE to_chat_format(data[1])

(* buscar_receita_por_id taking the row it finds out of the table. *)
BuscarReceitaPorIdConsuming(receita_id, raises) ==
    LET hit == {i \in 1..Len(catalog) : catalog[i].id = PyStr(receita_id)}
        without(seq) == [n \in 1..(Len(seq) - Cardinality(hit)) |->
                            IF \E i \in hit : i <= n THEN seq[n + 1] ELSE seq[n]]
    IN  /\ last' = Call("buscar_receita_por_id", receita_id, raises,
                        buscar_receita_por_id(catalog, receita_id, raises[1]), TRUE, 1, FALSE)
        /\ catalog' = IF raises[1] THEN catalog ELSE without(catalog)
        /\ origin' = IF raises[1] THEN origin ELSE without(origin)
        /\ UNCHANGED <<nextId, cache, now, arg, res, stage, found, sqlite, session>>

BuscarReceitaPorId(receita_id, raises) ==
    /\ last' = Call("buscar_receita_por_id", receita_id, raises,
                    buscar_receita_por_id(catalog, receita_id, raises[1]), TRUE, 1, FALSE)
    /\ UNCHANGED <<catalog, origin, nextId, cache, now, arg, res, stage, found, sqlite, session>>

ExportarReceitas(raises) ==
    /\ last' = Call("exportar_receitas", <<>>, raises,
                    exportar_receitas(catalog, raises[1]), TRUE, 1, FALSE)
    /\ UNCHANGED <<catalog, origin, nextId, cache, now, arg, res, stage, found, sqlite, session>>

Init ==
    /\ catalog = <<>>
    /\ origin = <<>>
    /\ nextId = 1
    /\ last = NoCall
    /\ cache = <<>>
    /\ now = 0
    /\ found = NoHistory
    /\ sqlite = SqliteEmpty
    /\ PureIdle

Next ==
    \/ \E receita \in AddInputs, raises \in RaiseOnce : AdicionarReceita(receita, raises)
    \/ \E raises \in RaiseOnce : LimparBanco(raises)
    \/ \E row \in ExternalRows : StoreExternalRow(row)
    \/ \E query \in Queries, raises \in RaisePatterns : BuscarReceitas(query, raises)
    \/ \E query \in TextQueries, raises \in RaisePatterns : BuscarReceitasPorTexto(query, raises)
    \/ \E raises \in RaiseOnce : ExportarReceitas(raises)

Spec == Init /\ [][Next]_vars

(* Searches followed by lookups by id, with the history of what the       *)
(* searches returned.                                                      *)
LookupAddInputs ==
    {Dict(Missing, PyStr(titulo), Missing, PyList(<<<<"b", "o">>>>), PyList(<<<<"x">>>>)) :
        titulo \in AddTitles}

InitLookup ==
    /\ catalog = <<>>
    /\ origin = <<>>
    /\ nextId = 1
    /\ last = NoCall
    /\ cache = <<>>
    /\ now = 0
    /\ found = [on |-> TRUE, records |-> {}]
    /\ sqlite = SqliteEmpty
    /\ PureIdle

NextLookup ==
    \/ \E receita \in LookupAddInputs, raises \in RaiseOnce : AdicionarReceita(receita, raises)
    \/ \E raises \in RaiseOnce : LimparBanco(raises)
    \/ \E query \in Queries, raises \in RaiseOnce : BuscarReceitas(query, raises)
    \/ \E query \in TextQueries, raises \in RaiseOnce : BuscarReceitasPorTexto(query, raises)
    \/ \E receita_id \in LookupIds, raises \in RaiseOnce : BuscarReceitaPorId(receita_id, raises)

SpecLookup == InitLookup /\ [][NextLookup]_vars

(* Every call of the catalog: writes, the clear, the searches, the lookup *)
(* by id and the export, each with a store that answers or fails.          *)
InitCatalog == Init

(* The store at an insert: it answers, it fails every time, or it fails    *)
(* once and answers from then on.                                          *)
AddRaises == RaiseOnce \cup {[n \in 1..StopAfterAttempt |-> n = 1]}

(* A recipe that holds the text "a" in its description only. *)
DescribedInputs ==
    {Dict(Missing, PyStr(<<"B", "o">>), PyStr(<<"a">>), PyList(<<<<"b", "o">>>>),
          PyList(<<<<"x">>>>))}

NextCatalog ==
    \/ \E receita \in LookupAddInputs \cup DescribedInputs, raises \in AddRaises :
           AdicionarReceita(receita, raises)
    \/ \E raises \in RaiseOnce : LimparBanco(raises)
    \/ \E query \in Queries, raises \in RaiseOnce : BuscarReceitas(query, raises)
    \/ \E query \in TextQueries, raises \in RaiseOnce : BuscarReceitasPorTexto(query, raises)
    \/ \E receita_id \in LookupIds, raises \in RaiseOnce : BuscarReceitaPorId(receita_id, raises)
    \/ \E raises \in RaiseOnce : ExportarReceitas(raises)

SpecCatalog == InitCatalog /\ [][NextCatalog]_vars

----------------------------------------------------------------------------
(* Properties of the catalog calls.                                        *)

Rows == 1..Len(catalog)
Returned == 1..Len(last.ret)

(* The row a returned record was made from. *)
FromRow(k, i) == last.ret[k].t = "dict" /\ last.ret[k].id = catalog[i].id

TitleHit(i, q) ==
    catalog[i].titulo.t = "str" /\ Contains(lower(catalog[i].titulo.s), lower(q))

IngredientHit(i, q) ==
    catalog[i].ingredientes.t = "str" /\ Contains(lower(catalog[i].ingredientes.s), lower(q))

(* C1: when every store round-trip raises, one buscar_receitas call makes *)
(* exactly 3 store attempts and then returns the empty list, and nothing  *)
(* is raised to the caller.                                                *)
C1_RetryExhaustion ==
    (last.op = "buscar_receitas" /\ \A n \in 1..StopAfterAttempt : last.raises[n])
        => (last.attempts = StopAfterAttempt /\ last.ret = <<>> /\ ~last.raised)

(* C2: in the free-text search, if the cleaned query matches the title of *)
(* some row, every returned record comes from a row whose title matches;  *)
(* a record from a row that matches in its ingredients only is returned   *)
(* only when no title matches.                                             *)
C2_FieldPriority ==
    (last.op = "buscar_receitas_por_texto" /\ last.query # <<>>) =>
        LET q == clean_search_query(last.query)
        IN  /\ (\E i \in Rows : TitleHit(i, q)) =>
                   \A k \in Returned : \E i \in Rows : FromRow(k, i) /\ TitleHit(i, q)
            /\ \A k \in Returned : \A i \in Rows :
                   (FromRow(k, i) /\ IngredientHit(i, q) /\ ~TitleHit(i, q))
                       => ~\E j \in Rows : TitleHit(j, q)

(* A free-text search answered title hits while another row matched the   *)
(* query in its ingredients only, and left that row out.                   *)
C2_Witness ==
    /\ last.op = "buscar_receitas_por_texto"
    /\ last.query # <<>>
    /\ last.ret # <<>>
    /\ LET q == clean_search_query(last.query)
       IN  \E i, j \in Rows :
               /\ TitleHit(i, q)
               /\ ~TitleHit(j, q) /\ IngredientHit(j, q)
               /\ \E k \in Returned : FromRow(k, i)
               /\ ~\E k \in Returned : FromRow(k, j)

(* The catalog holds only what adicionar_receita wrote since it was empty, *)
(* and the last call is a title search with a query whose lookup succeeded.*)
SearchedOwnCatalog ==
    /\ last.op = "buscar_receitas"
    /\ ~last.raises[1]
    /\ last.query # <<>>
    /\ \A i \in Rows : ~origin[i].ext

InsertedTitle(i) == upper(strip(origin[i].chat.titulo.s))

InsertedIngredients(i) == origin[i].chat.ingredientes.l

(* The entries of a list split on newlines and trimmed, the empty ones    *)
(* and every repetition of an earlier one left out.                        *)
RECURSIVE flat_lines(_)
flat_lines(entries) ==
    IF entries = <<>> THEN <<>> ELSE split(Head(entries), "\n") \o flat_lines(Tail(entries))

RECURSIVE first_occurrences(_, _)
first_occurrences(lines, n) ==
    IF n > Len(lines) THEN <<>>
    ELSE (IF lines[n] # <<>> /\ \A m \in 1..(n - 1) : lines[m] # lines[n]
          THEN <<lines[n]>>
          ELSE <<>>) \o first_occurrences(lines, n + 1)

Normalized(entries) ==
    LET lines == flat_lines(entries)
    IN  first_occurrences([n \in 1..Len(lines) |-> strip(lines[n])], 1)

(* The returned records are, one for one, the rows of matching. *)
ReturnsExactly(matching, ingredients(_)) ==
    /\ Len(last.ret) = Cardinality(matching)
    /\ \A k \in Returned : \E i \in matching : FromRow(k, i)
    /\ \A i \in matching : \E k \in Returned :
           /\ FromRow(k, i)
           /\ last.ret[k].titulo = PyStr(InsertedTitle(i))
           /\ last.ret[k].ingredientes = PyList(ingredients(i))

NormalizedIngredients(i) == Normalized(InsertedIngredients(i))

(* C3: after successful adicionar_receita calls on a cleared catalog,     *)
(* buscar_receitas(q) for a non-empty q returns exactly one record per    *)
(* stored recipe whose title contains q case-insensitively, and no other  *)
(* record, each with the trimmed upper-cased inserted title and the       *)
(* inserted ingredient list.  Stated for a q without surrounding blanks   *)
(* and for recipes whose ingredient entries were inserted trimmed,        *)
(* non-empty and without repetition, so that selecting the records is all *)
(* that is in question.                                                    *)
C3_ReturnsInsertedList ==
    (/\ SearchedOwnCatalog
     /\ strip(last.query) = last.query
     /\ \A i \in Rows : NormalizedIngredients(i) = InsertedIngredients(i)) =>
        ReturnsExactly({i \in Rows : Contains(lower(InsertedTitle(i)), lower(last.query))},
                       InsertedIngredients)

(* The last call is a search whose store round-trips all succeeded, on a   *)
(* catalog that holds only what adicionar_receita wrote.                   *)
SearchSucceeded ==
    /\ last.op \in {"buscar_receitas", "buscar_receitas_por_texto"}
    /\ \A n \in 1..StopAfterAttempt : ~last.raises[n]
    /\ \A i \in Rows : ~origin[i].ext

(* C12: a search with the empty query, by buscar_receitas or by           *)
(* buscar_receitas_por_texto, returns a record for every recipe of the    *)
(* catalog (the catalogs here are below the result cap), so the result is *)
(* non-empty when the catalog is.                                          *)
C12_EmptyQueryReturnsAll ==
    (SearchSucceeded /\ last.query = <<>>) =>
        /\ Len(last.ret) = Len(catalog)
        /\ \A i \in Rows : \E k \in Returned : FromRow(k, i)

C22_StoredRecipesImmutable ==
    [][last'.op # "limpar_banco" =>
              /\ Len(catalog') >= Len(catalog)
              /\ \A i \in Rows : catalog'[i] = catalog[i]]_vars

(* A second recipe was added next to a stored one. *)
C22_Witness ==
    /\ last.op = "adicionar_receita"
    /\ last.ok
    /\ Len(catalog) >= 2
    /\ catalog[1].id # catalog[2].id

(* C23: an adicionar_receita whose insert fails attempts it again, up to   *)
(* 3 attempts in all, and reports failure only when every attempt failed: *)
(* the call stops at the first attempt the store answers, and it returns  *)
(* True exactly when there is one.                                         *)
C23_WriteRetried ==
    (last.op = "adicionar_receita" /\ last.attempts > 0) =>
        LET answered == {n \in 1..StopAfterAttempt : ~last.raises[n]}
        IN  /\ last.ok = (answered # {})
            /\ last.attempts = IF answered = {} THEN StopAfterAttempt
                               ELSE CHOOSE n \in answered : \A m \in answered : n <= m

DescriptionHit(i, q) ==
    catalog[i].descricao.t = "str" /\ Contains(lower(catalog[i].descricao.s), lower(q))

(* C24: a free-text search whose cleaned query matches no title and no    *)
(* ingredients returns a record for every stored recipe whose description *)
(* contains the query.                                                     *)
C24_DescriptionFallback ==
    (/\ last.op = "buscar_receitas_por_texto"
     /\ last.query # <<>>
     /\ \A n \in 1..StopAfterAttempt : ~last.raises[n]) =>
        LET q == clean_search_query(last.query)
        IN  (\A i \in Rows : ~TitleHit(i, q) /\ ~IngredientHit(i, q)) =>
                \A i \in Rows : DescriptionHit(i, q) => \E k \in Returned : FromRow(k, i)

SearchOps ==
    {"buscar_receitas", "buscar_receitas_por_texto", "buscar_receita_por_id",
     "exportar_receitas"}

CallAnswered(call) == \A n \in 1..StopAfterAttempt : ~call.raises[n]

C9_NoNullEntry ==
    last.op \in {"buscar_receitas", "buscar_receitas_por_texto", "exportar_receitas"}
        => \A k \in Returned : last.ret[k].t = "dict"

----------------------------------------------------------------------------
(* buscar_receitas_cached under @st.cache_data(ttl=3600): one entry per    *)
(* query text, valid for the ttl counted from the time it was stored.      *)

Ttl == 3600

CachedQueries == {<<"b", "o">>, <<"B", "o">>, <<"_">>}

CacheAddInputs == {Dict(Missing, PyStr(<<"B", "o">>), Missing, PyList(<<<<"a">>>>), PyList(<<<<"x">>>>))}

NoEntry == [present |-> FALSE, at |-> 0, value |-> <<>>]

cache_valid_forever(entry, time) == entry.present

(* An entry that outlives its ttl by another ttl. *)
cache_valid_twice_ttl(entry, time) == entry.present /\ time < entry.at + 2 * Ttl

(* The entry is there and its ttl has not run out. *)
cache_valid(entry, time) == entry.present /\ time < entry.at + Ttl

(* What one call does: the stored value, or the value of db.buscar_receitas *)
(* and the entry that stores it.                                            *)
buscar_receitas_cached(entries, time, rows, query, raises) ==
    IF cache_valid(entries[query], time)
    THEN [value |-> entries[query].value, attempts |-> 0, entries |-> entries]
    ELSE LET out == buscar_receitas(rows, query, raises)
             value == IF out.raised THEN <<>> ELSE out.value
         IN  [value |-> value, attempts |-> out.attempts,
              entries |-> [entries EXCEPT ![query] =
                               [present |-> TRUE, at |-> time, value |-> value]]]

BuscarReceitasCached(query, raises) ==
    LET out == buscar_receitas_cached(cache, now, catalog, query, raises)
    IN  /\ cache' = out.entries
        /\ last' = Call("buscar_receitas_cached", query, raises, out.value, TRUE,
                        out.attempts, FALSE)
        /\ UNCHANGED <<catalog, origin, nextId, now, arg, res, stage, found, sqlite, session>>

(* Time passes. *)
Tick ==
    /\ now + TickStep <= MaxClock
    /\ now' = now + TickStep
    /\ UNCHANGED <<catalog, origin, nextId, last, cache, arg, res, stage, found, sqlite, session>>

InitCache ==
    /\ catalog = <<>>
    /\ origin = <<>>
    /\ nextId = 1
    /\ last = NoCall
    /\ cache = [q \in CachedQueries |-> NoEntry]
    /\ now = 0
    /\ found = NoHistory
    /\ sqlite = SqliteEmpty
    /\ PureIdle

NextCache ==
    \/ \E receita \in CacheAddInputs, raises \in RaiseOnce : AdicionarReceita(receita, raises)
    \/ \E query \in CachedQueries, raises \in RaiseOnce : BuscarReceitasCached(query, raises)
    \/ Tick

SpecCache == InitCache /\ [][NextCache]_vars

(* C4: a call of buscar_receitas_cached made less than the ttl after the  *)
(* underlying search last ran for the same query does not run it again    *)
(* and returns the stored result; a call made when the search never ran   *)
(* for the query, or ran the ttl or longer ago, runs it again.            *)
C4_CacheTtl ==
    [][\A q \in CachedQueries :
          (last'.op = "buscar_receitas_cached" /\ last'.query = q /\ now' = now) =>
              IF cache[q].present /\ now - cache[q].at < Ttl
              THEN last'.attempts = 0 /\ last'.ret = cache[q].value /\ cache'[q] = cache[q]
              ELSE last'.attempts > 0 /\ cache'[q].present /\ cache'[q].at = now
                   /\ cache'[q].value = last'.ret]_vars

(* A call was answered from the cache, later than the entry was stored    *)
(* and within its ttl, the entry having been stored when an earlier one   *)
(* could have expired.                                                     *)
C4_Witness ==
    /\ last.op = "buscar_receitas_cached"
    /\ last.attempts = 0
    /\ last.ret # <<>>
    /\ cache[last.query].at >= Ttl
    /\ cache[last.query].at < now

(* The stored recipe is among the returned records. *)
Includes(ret, i) == \E k \in 1..Len(ret) : ret[k].id = catalog[i].id

C28_FailureNotCached ==
    [][(/\ last.op = "buscar_receitas_cached" /\ last.attempts > 0 /\ last.raises[1]
        /\ last'.op = "buscar_receitas_cached" /\ last'.query = last.query
        /\ now' = now /\ CallAnswered(last'))
           => \A i \in Rows : TitleHit(i, strip(last.query)) => Includes(last'.ret, i)]_vars

(* C17: the cache is keyed by the normalized query: a call whose query    *)
(* normalizes to the same text as the query of an entry that is within    *)
(* its ttl does not run the underlying search.                             *)
C17_NormalizedKey ==
    (last.op = "buscar_receitas_cached" /\ last.attempts > 0) =>
        \A q \in CachedQueries \ {last.query} :
            normalize_text(q) = normalize_text(last.query)
                => ~cache_valid(cache[q], cache[last.query].at)

----------------------------------------------------------------------------
(* The searches on a catalog that grows past ten recipes.                  *)

InitCap == Init

NextCap ==
    \/ \E receita \in CacheAddInputs, raises \in RaiseOnce :
           AdicionarReceitaAte(receita, raises, MaxCapRows, MaxCapRows)
    \/ \E query \in Queries, raises \in RaisePatterns : BuscarReceitas(query, raises)
    \/ \E query \in TextQueries, raises \in RaisePatterns : BuscarReceitasPorTexto(query, raises)

SpecCap == InitCap /\ [][NextCap]_vars

(* The result cap the SQLite catalog applies (LIMIT 10). *)
ResultCap == 10

(* C13: a search returns at most ten records, whatever the query and the  *)
(* size of the catalog.                                                    *)
C13_ResultCap ==
    last.op \in {"buscar_receitas", "buscar_receitas_por_texto"} => Len(last.ret) <= ResultCap

----------------------------------------------------------------------------
(* The adapter on its own: a raw record is converted to the chat format,   *)
(* back to the store format and to the chat format again.                  *)

Entries == {<<"a">>, <<"b", " ">>, <<>>}

EntryLists == SeqsUpTo(Entries, MaxEntries)

RawIds == {Missing, PyNone, PyStr(<<>>), PyStr(<<" ">>), PyStr(<<"7">>)}

RawTitles == {Missing, PyStr(<<" ">>), PyStr(<<" ", "B", "o">>)}

RawLines ==
    {Missing, PyNone} \cup {PyList(l) : l \in EntryLists}
        \cup {PyStr(join(<<"\n">>, l)) : l \in EntryLists}

RawSteps == {PyStr(<<"x", "\n", "x">>), PyList(<<<<"x">>, <<"x">>>>)}

RawRecords ==
    {Dict(id, titulo, Missing, ingredientes, modo_preparo) :
        id \in RawIds, titulo \in RawTitles, ingredientes \in RawLines,
        modo_preparo \in RawSteps} \cup {NoneDict}

NotRun == [t |-> "notrun"]

CatalogIdle ==
    /\ catalog = <<>> /\ origin = <<>> /\ nextId = 1 /\ last = NoCall
    /\ cache = <<>> /\ now = 0 /\ found = NoHistory /\ sqlite = SqliteEmpty
    /\ session = init_session_state

ToChatFormat ==
    /\ stage = "raw"
    /\ res' = [res EXCEPT !.chat = to_chat_format(arg)]
    /\ stage' = "chat"
    /\ UNCHANGED <<catalog, origin, nextId, last, cache, now, arg, found, sqlite, session>>

ToDbFormat ==
    /\ stage = "chat"
    /\ res' = [res EXCEPT !.db = to_db_format(res.chat)]
    /\ stage' = "db"
    /\ UNCHANGED <<catalog, origin, nextId, last, cache, now, arg, found, sqlite, session>>

ToChatFormatAgain ==
    /\ stage = "db"
    /\ res' = [res EXCEPT !.again = to_chat_format(res.db)]
    /\ stage' = "again"
    /\ UNCHANGED <<catalog, origin, nextId, last, cache, now, arg, found, sqlite, session>>

CriarResumoReceita ==
    /\ stage = "raw"
    /\ res' = [res EXCEPT !.resumo = criar_resumo_receita(arg)]
    /\ stage' = "resumo"
    /\ UNCHANGED <<catalog, origin, nextId, last, cache, now, arg, found, sqlite, session>>

InitAdapter ==
    /\ CatalogIdle
    /\ arg \in RawRecords
    /\ res = [chat |-> NotRun, db |-> NotRun, again |-> NotRun, resumo |-> NotRun]
    /\ stage = "raw"

NextAdapter == ToChatFormat \/ ToDbFormat \/ ToChatFormatAgain \/ CriarResumoReceita

SpecAdapter == InitAdapter /\ [][NextAdapter]_vars

Converted == stage \in {"chat", "db", "again"}

NonEmptyText(v) == v.t = "str" /\ strip(v.s) # <<>>

(* The entries trimmed, the empty ones and every repetition left out. *)
CleanEntries(entries) ==
    first_occurrences([n \in 1..Len(entries) |-> strip(entries[n])], 1)

ExpectedLines(v) ==
    IF v.t = "str" THEN CleanEntries(split(v.s, "\n")) ELSE CleanEntries(v.l)

(* C5: for a raw record with a non-empty id and title, converting to the  *)
(* chat format, to the store format and to the chat format again gives    *)
(* what the first conversion gave.                                         *)
C5_RoundTrip ==
    (stage = "again" /\ arg.t = "dict" /\ NonEmptyText(arg.id) /\ NonEmptyText(arg.titulo))
        => res.again = res.chat

(* C6: the ingredients and the steps of a converted record are the        *)
(* trimmed non-empty entries of the stored value, repetitions removed in  *)
(* first-seen order, whether the stored value is a newline-delimited text *)
(* or a sequence.  Stated for the records whose id is a non-empty text,    *)
(* which the adapter is to accept.                                         *)
C6_CleanedEntries ==
    (Converted /\ arg.t = "dict" /\ NonEmptyText(arg.id) /\ res.chat.t = "dict") =>
        /\ arg.ingredientes.t \in {"str", "list"} =>
               res.chat.ingredientes = PyList(ExpectedLines(arg.ingredientes))
        /\ arg.modo_preparo.t \in {"str", "list"} =>
               res.chat.modo_preparo = PyList(ExpectedLines(arg.modo_preparo))

(* C7: a raw record whose title is missing or empty after trimming        *)
(* converts to None, and no converted record has an empty titulo.  Stated *)
(* for the records whose id is a non-empty text, where the title alone    *)
(* decides.                                                                *)
C7_EmptyTitleRejected ==
    (Converted /\ arg.t = "dict" /\ NonEmptyText(arg.id)) =>
        /\ ~NonEmptyText(arg.titulo) => res.chat = NoneDict
        /\ res.chat.t = "dict" => res.chat.titulo.s # <<>>

(* C8: a raw record whose id is absent (no key, or a null value) or empty *)
(* after trimming converts to None.                                        *)
C8_AbsentIdRejected ==
    (Converted /\ arg.t = "dict" /\ ~NonEmptyText(arg.id)) => res.chat = NoneDict

(* C11: _criar_resumo_receita returns None for every record whose id is   *)
(* missing, null or empty after trimming, or whose title is missing or    *)
(* empty after trimming; for every other record it returns a summary with *)
(* the trimmed id and the trimmed upper-cased title.                       *)
C11_ResumoValidated ==
    (stage = "resumo" /\ arg.t = "dict") =>
        IF ~NonEmptyText(arg.id) \/ arg.titulo.t = "missing"
               \/ (arg.titulo.t = "str" /\ strip(arg.titulo.s) = <<>>)
        THEN res.resumo = NoneDict
        ELSE /\ res.resumo.t = "resumo"
             /\ res.resumo.id = strip(arg.id.s)
             /\ res.resumo.titulo = upper(strip(str(arg.titulo)))

(* The ingredient entries of a stored text: its lines trimmed, the empty  *)
(* ones left out.                                                          *)
IngredientEntries(text) ==
    LET lines == split(text, "\n")
    IN  SelectSeq([n \in 1..Len(lines) |-> strip(lines[n])], LAMBDA line : line # <<>>)

(* C21: the ingredient preview of a summary holds the first 3 ingredient  *)
(* entries of the recipe (all of them when there are fewer), followed by  *)
(* the marker "..." if and only if the recipe has more than 3 entries.    *)
(* Stated for the records whose ingredients are stored as a text.          *)
C21_PreviewEllipsis ==
    (stage = "resumo" /\ res.resumo.t = "resumo" /\ arg.ingredientes.t = "str") =>
        LET entries == IngredientEntries(arg.ingredientes.s)
        IN  res.resumo.preview_ingredientes =
                take(entries, PreviewLen)
                    \o (IF Len(entries) > PreviewLen THEN <<<<".", ".", ".">>>> ELSE <<>>)

----------------------------------------------------------------------------
(* Catalog writes with records that lack a title or ingredients.           *)

WriteTitles == {Missing, PyStr(<<" ">>), PyStr(<<"B", "o">>)}

WriteIngredients == {Missing, PyList(<<>>), PyList(<<<<"a">>>>)}

WriteInputs ==
    {Dict(Missing, titulo, Missing, ingredientes, PyList(<<<<"x">>>>)) :
        titulo \in WriteTitles, ingredientes \in WriteIngredients}

InitWrite == Init

NextWrite ==
    \/ \E receita \in WriteInputs, raises \in RaiseOnce : AdicionarReceita(receita, raises)
    \/ \E raises \in RaiseOnce : LimparBanco(raises)
    \/ \E raises \in RaiseOnce : ExportarReceitas(raises)

SpecWrite == InitWrite /\ [][NextWrite]_vars

(* The record has a title and at least one ingredient. *)
ValidForWrite(receita) ==
    /\ NonEmptyText(receita.titulo)
    /\ \/ receita.ingredientes.t = "list" /\ receita.ingredientes.l # <<>>
       \/ NonEmptyText(receita.ingredientes)

(* C15: adicionar_receita called with a record whose title is missing or  *)
(* empty, or whose ingredients are missing or empty, returns False and    *)
(* inserts nothing: every row of the catalog was written from a record    *)
(* with a title and ingredients.                                           *)
C15_WriteValidated ==
    \A i \in Rows : ~origin[i].ext => ValidForWrite(origin[i].chat)

----------------------------------------------------------------------------
(* The SQLite catalog of src/database.py: the tables receitas, dicas and   *)
(* beneficios_funcionais behind self.conn.  Foreign keys are declared but  *)
(* not enforced (no PRAGMA foreign_keys).                                  *)

SqliteReceita(titulo, ingredientes, modo_preparo, dicas, beneficios) ==
    [t |-> "dict", titulo |-> titulo, ingredientes |-> ingredientes,
     modo_preparo |-> modo_preparo, dicas |-> dicas, beneficios_funcionais |-> beneficios]

(* value if it is a str, '\n'.join(value) if it is a list *)
sqlite_lines(v, sep) == IF v.t = "list" THEN join(sep, v.l) ELSE v.s

(* The rows to insert for receita['dicas'] / receita['beneficios_funcionais']: *)
(* none for an absent or falsy value, one for a str, one per entry of a list.  *)
sqlite_entries(v) ==
    IF falsy(v) THEN <<>> ELSE IF v.t = "str" THEN <<v.s>> ELSE v.l

(* A value that is a number. *)
PyInt(n) == [t |-> "int", s |-> <<>>, l |-> <<>>, n |-> n]

(* for x in value: raises TypeError for a number. *)
not_iterable(v) == v.t = "int"

(* self.conn.commit(): the open transaction becomes durable. *)
commit(db) ==
    [db EXCEPT !.durable = [receitas |-> db.receitas, dicas |-> db.dicas,
                            beneficios_funcionais |-> db.beneficios_funcionais]]

(* adicionar_receita of the SQLite catalog: receita['titulo'],             *)
(* receita['ingredientes'] and receita['modo_preparo'] raise KeyError when *)
(* absent, before anything is executed.  An exception raised after the     *)
(* INSERT INTO receitas (iterating over dicas or beneficios_funcionais     *)
(* that are a number) ends the call in the except clause, which logs and   *)
(* returns False: there is no rollback, so the rows executed so far stay   *)
(* in the open transaction of the connection.                              *)
sqlite_adicionar_receita(db, receita) ==
    IF \E key \in {"titulo", "ingredientes", "modo_preparo"} : receita[key].t = "missing"
    THEN [ok |-> FALSE, db |-> db]
    ELSE LET receita_id == db.lastrowid + 1
             row == [id |-> receita_id,
                     titulo |-> str(receita.titulo),
                     ingredientes |-> sqlite_lines(receita.ingredientes, <<"\n">>),
                     modo_preparo |-> IF receita.modo_preparo.t = "list"
                                      THEN join(<<".", "\n">>, receita.modo_preparo.l) \o <<".">>
                                      ELSE receita.modo_preparo.s]
             dicas == sqlite_entries(receita.dicas)
             beneficios == sqlite_entries(receita.beneficios_funcionais)
             with_row == [db EXCEPT !.receitas = Append(@, row), !.lastrowid = receita_id]
             with_dicas ==
                 [with_row EXCEPT !.dicas = @ \o
                     [n \in 1..Len(dicas) |-> [receita_id |-> receita_id, dica |-> dicas[n]]]]
             with_beneficios ==
                 [with_dicas EXCEPT !.beneficios_funcionais = @ \o
                     [n \in 1..Len(beneficios) |->
                         [receita_id |-> receita_id, beneficio |-> beneficios[n]]]]
         IN  IF not_iterable(receita.dicas)
             THEN [ok |-> FALSE, db |-> with_row]
             ELSE IF not_iterable(receita.beneficios_funcionais)
                  THEN [ok |-> FALSE, db |-> with_dicas]
                  ELSE [ok |-> TRUE, db |-> commit(with_beneficios)]

(* limpar_banco of the SQLite catalog: DELETE FROM dicas, receitas and     *)
(* categorias, then commit.                                                *)
sqlite_limpar_banco(db) ==
    commit([db EXCEPT !.dicas = <<>>, !.receitas = <<>>])

(* seq[::-1] *)
reversed(seq) == [n \in 1..Len(seq) |-> seq[Len(seq) + 1 - n]]

(* buscar_receitas of the SQLite catalog without a term: the rows, newest  *)
(* first (rows inserted at different times), at most ResultCap of them,    *)
(* each with its dicas and beneficios.                                     *)
sqlite_buscar_receitas(db) ==
    LET rows == take(reversed(db.receitas), ResultCap)
        of_row(entries, id) == SelectSeq(entries, LAMBDA e : e.receita_id = id)
    IN  [n \in 1..Len(rows) |->
            [id |-> rows[n].id, titulo |-> rows[n].titulo,
             dicas |-> [k \in 1..Len(of_row(db.dicas, rows[n].id)) |->
                           of_row(db.dicas, rows[n].id)[k].dica],
             beneficios_funcionais |->
                 [k \in 1..Len(of_row(db.beneficios_funcionais, rows[n].id)) |->
                     of_row(db.beneficios_funcionais, rows[n].id)[k].beneficio]]]

SqliteTexts == {Missing, PyStr(<<"B", "o">>)}

SqliteLists == {Missing, PyList(<<>>), PyList(<<<<"d">>>>), PyStr(<<"d">>), PyInt(5)}

SqliteInputs ==
    {SqliteReceita(titulo, PyList(<<<<"a">>>>), PyList(<<<<"x">>, <<"y">>>>), dicas, beneficios) :
        titulo \in SqliteTexts, dicas \in SqliteLists, beneficios \in SqliteLists}

SqliteAdicionarReceita(receita) ==
    LET out == sqlite_adicionar_receita(sqlite, receita)
    IN  /\ Len(sqlite.receitas) < MaxRows
        /\ sqlite.lastrowid < MaxIds
        /\ sqlite' = [out.db EXCEPT !.failed =
                          IF ~out.ok /\ out.db.lastrowid # sqlite.lastrowid
                          THEN @ \cup {out.db.lastrowid}
                          ELSE @]
        /\ last' = Call("sqlite.adicionar_receita", <<>>, NoRaises, <<>>, out.ok, 0, FALSE)
        /\ UNCHANGED <<catalog, origin, nextId, cache, now, arg, res, stage, found, session>>

SqliteLimparBanco ==
    /\ sqlite' = sqlite_limpar_banco(sqlite)
    /\ last' = Call("sqlite.limpar_banco", <<>>, NoRaises, <<>>, TRUE, 0, FALSE)
    /\ UNCHANGED <<catalog, origin, nextId, cache, now, arg, res, stage, found, session>>

SqliteBuscarReceitas ==
    /\ last' = Call("sqlite.buscar_receitas", <<>>, NoRaises, sqlite_buscar_receitas(sqlite),
                    TRUE, 0, FALSE)
    /\ UNCHANGED <<catalog, origin, nextId, cache, now, arg, res, stage, found, sqlite, session>>

InitSqlite == Init

NextSqlite ==
    \/ \E receita \in SqliteInputs : SqliteAdicionarReceita(receita)
    \/ SqliteLimparBanco
    \/ SqliteBuscarReceitas

SpecSqlite == InitSqlite /\ [][NextSqlite]_vars

(* The row of dicas or beneficios_funcionais belongs to a stored recipe. *)
HasRecipe(entry) == \E n \in 1..Len(sqlite.receitas) : sqlite.receitas[n].id = entry.receita_id

(* C16: after limpar_banco the catalog is empty, a search returns nothing  *)
(* stored before, and no tip or functional-benefit row of a deleted recipe *)
(* remains in the store.                                                   *)
C16_ClearLeavesNothing ==
    /\ (last.op = "sqlite.limpar_banco" /\ last.ok) => sqlite.receitas = <<>>
    /\ \A n \in 1..Len(sqlite.dicas) : HasRecipe(sqlite.dicas[n])
    /\ \A n \in 1..Len(sqlite.beneficios_funcionais) : HasRecipe(sqlite.beneficios_funcionais[n])

(* C27: a call of the SQLite adicionar_receita that returns False leaves  *)
(* the catalog unchanged: no later search returns a recipe the failed     *)
(* call wrote, and no recipe, tip or functional-benefit row it wrote is   *)
(* made durable by a later commit.                                         *)
C27_FailedAddLeavesNothing ==
    /\ last.op = "sqlite.buscar_receitas" =>
           \A k \in Returned : last.ret[k].id \notin sqlite.failed
    /\ \A n \in 1..Len(sqlite.durable.receitas) :
           sqlite.durable.receitas[n].id \notin sqlite.failed
    /\ \A n \in 1..Len(sqlite.durable.dicas) :
           sqlite.durable.dicas[n].receita_id \notin sqlite.failed
    /\ \A n \in 1..Len(sqlite.durable.beneficios_funcionais) :
           sqlite.durable.beneficios_funcionais[n].receita_id \notin sqlite.failed

----------------------------------------------------------------------------
(* gerar_receita of src/main.py: the validation of the decoded response.   *)

(* A response that json.loads does not decode. *)
NotJson == [t |-> "notjson"]

(* The part of gerar_receita after json.loads: receita_dict, or None.      *)
gerar_receita(receita_dict) ==
    IF receita_dict.t # "dict"
    THEN NoneDict
    ELSE IF \E campo \in {"titulo", "ingredientes", "modo_preparo"} :
                receita_dict[campo].t = "missing"
         THEN NoneDict
         ELSE IF receita_dict.ingredientes.t # "list" \/ receita_dict.modo_preparo.t # "list"
              THEN NoneDict
              ELSE IF receita_dict.ingredientes.l = <<>> \/ receita_dict.modo_preparo.l = <<>>
                   THEN NoneDict
                   ELSE receita_dict

GeneratedTitles == {Missing, PyNone, PyStr(<<>>), PyStr(<<"B", "o">>)}

GeneratedLists == {Missing, PyNone, PyStr(<<"a">>), PyList(<<>>), PyList(<<<<"a">>>>)}

GeneratedResponses ==
    {Dict(Missing, titulo, Missing, ingredientes, modo_preparo) :
        titulo \in GeneratedTitles, ingredientes \in GeneratedLists,
        modo_preparo \in GeneratedLists} \cup {NotJson}

GerarReceita ==
    /\ stage = "decoded"
    /\ res' = gerar_receita(arg)
    /\ stage' = "validated"
    /\ UNCHANGED <<catalog, origin, nextId, last, cache, now, arg, found, sqlite, session>>

InitGerar ==
    /\ CatalogIdle
    /\ arg \in GeneratedResponses
    /\ res = NotRun
    /\ stage = "decoded"

NextGerar == GerarReceita

SpecGerar == InitGerar /\ [][NextGerar]_vars

(* The field is absent, null or empty. *)
MissingOrEmpty(v) == falsy(v)

(* C19: the validation of a generated recipe returns None when the title,  *)
(* the ingredients or the steps are missing or empty, and returns the      *)
(* record when all three are there (ingredients and steps being lists).    *)
C19_GeneratedValidated ==
    (stage = "validated" /\ arg.t = "dict") =>
        IF \/ MissingOrEmpty(arg.titulo)
           \/ MissingOrEmpty(arg.ingredientes)
           \/ MissingOrEmpty(arg.modo_preparo)
        THEN res = NoneDict
        ELSE (arg.ingredientes.t = "list" /\ arg.modo_preparo.t = "list") => res = arg

----------------------------------------------------------------------------
(* The nutrition entry of to_chat_format.  A stored JSON object is a       *)
(* function from its keys to numbers.                                      *)

NutritionFields == {"calorias", "proteinas", "carboidratos", "gorduras", "fibras"}

PyObject(o) == [t |-> "object", s |-> <<>>, l |-> <<>>, o |-> o]

(* What the column informacoes_nutricionais may hold: nothing, null, a     *)
(* text that is no JSON, a text that is JSON, or an object with some of    *)
(* the five fields.                                                        *)
StoredNutrition ==
    {Missing, PyNone, PyStr(<<"{">>), PyStr(<<"{", "}">>)}
        \cup {PyObject([f \in fields |-> 1]) : fields \in SUBSET NutritionFields}

NutritionRecords ==
    {[t |-> "dict", id |-> id, titulo |-> titulo, descricao |-> Missing,
      ingredientes |-> PyStr(<<"a">>), modo_preparo |-> PyStr(<<"x">>),
      informacoes_nutricionais |-> nutrition] :
        id \in RawIds, titulo \in RawTitles, nutrition \in StoredNutrition}

(* 'informacoes_nutricionais': receita_db.get('informacoes_nutricionais', {}) *)
informacoes_nutricionais(receita_db) ==
    Get(receita_db, "informacoes_nutricionais", PyObject(<<>>))

ToChatFormatNutrition ==
    /\ stage = "stored"
    /\ res' = LET receita == to_chat_format(arg)
              IN  [chat |-> receita,
                   informacoes_nutricionais |->
                       IF receita.t = "dict" THEN informacoes_nutricionais(arg) ELSE NotRun]
    /\ stage' = "nutrition"
    /\ UNCHANGED <<catalog, origin, nextId, last, cache, now, arg, found, sqlite, session>>

InitNutrition ==
    /\ CatalogIdle
    /\ arg \in NutritionRecords
    /\ res = NotRun
    /\ stage = "stored"

NextNutrition == ToChatFormatNutrition

SpecNutrition == InitNutrition /\ [][NextNutrition]_vars

(* The stored value gives this field a number. *)
StoresField(v, field) == v.t = "object" /\ field \in DOMAIN v.o

(* C20: a converted record carries a nutrition record with the five        *)
(* fields, each the stored number or, where the stored value has none      *)
(* (absent, null, invalid JSON, a missing sub-field), zero.  Stated for   *)
(* the records with an id and a title.                                     *)
C20_NutritionDefaults ==
    (/\ stage = "nutrition"
     /\ NonEmptyText(arg.id) /\ NonEmptyText(arg.titulo)
     /\ res.chat.t = "dict") =>
        /\ res.informacoes_nutricionais.t = "object"
        /\ DOMAIN res.informacoes_nutricionais.o = NutritionFields
        /\ \A field \in NutritionFields :
               res.informacoes_nutricionais.o[field] =
                   IF StoresField(arg.informacoes_nutricionais, field)
                   THEN arg.informacoes_nutricionais.o[field]
                   ELSE 0

----------------------------------------------------------------------------
(* parse_markdown_recipe of src/import_md.py.                              *)

(* s.startswith(prefix) *)
startswith(s, prefix) == Len(s) >= Len(prefix) /\ SubSeq(s, 1, Len(prefix)) = prefix

(* s[n:] *)
drop(s, n) == SubSeq(s, n + 1, Len(s))

(* The keywords the section headings are searched for. *)
kw_ingredientes == <<"i", "n", "g", "r", "e", "d", "i", "e", "n", "t", "e", "s">>
kw_preparo == <<"p", "r", "e", "p", "a", "r", "o">>
kw_instrucoes == <<"i", "n", "s", "t", "r", "u", "ç", "õ", "e", "s">>
kw_dicas == <<"d", "i", "c", "a", "s">>
kw_harmonizacao == <<"h", "a", "r", "m", "o", "n", "i", "z", "a", "ç", "ã", "o">>

NoSection == "none"

(* The if/elif chain of a '## ' heading: the section it names, or, when it *)
(* names none, the section that was current (there is no else branch).     *)
section_of(section, current_section) ==
    IF Contains(section, kw_ingredientes) THEN "ingredientes"
    ELSE IF Contains(section, kw_preparo) \/ Contains(section, kw_instrucoes)
         THEN "modo_preparo"
         ELSE IF Contains(section, kw_dicas) THEN "dicas"
              ELSE IF Contains(section, kw_harmonizacao) THEN "harmonizacao"
                   ELSE current_section

(* The number of digits the line starts with. *)
RECURSIVE leading_digits(_)
leading_digits(line) ==
    IF line # <<>> /\ Head(line) \in Range(DigitChars)
    THEN 1 + leading_digits(Tail(line))
    ELSE 0

(* re.match(r'^\d+\. ', line) *)
numbered(line) ==
    leading_digits(line) >= 1 /\ startswith(drop(line, leading_digits(line)), <<".", " ">>)

(* line.startswith('- ') or line.startswith('* ') *)
bulleted(line) == startswith(line, <<"-", " ">>) \/ startswith(line, <<"*", " ">>)

(* The loop over the lines. *)
RECURSIVE parse_lines(_, _, _)
parse_lines(lines, recipe, current_section) ==
    IF lines = <<>> THEN recipe
    ELSE LET line == strip(Head(lines))
             rest == Tail(lines)
         IN  IF line = <<>>
             THEN parse_lines(rest, recipe, current_section)
             ELSE IF startswith(line, <<"#", " ">>)
             THEN parse_lines(rest, [recipe EXCEPT !.titulo = strip(drop(line, 2))],
                              current_section)
             ELSE IF startswith(line, <<"#", "#", " ">>)
             THEN parse_lines(rest, recipe,
                              section_of(lower(strip(drop(line, 3))), current_section))
             ELSE IF current_section = NoSection
             THEN parse_lines(rest, recipe, current_section)
             ELSE IF bulleted(line)
             THEN parse_lines(rest,
                      IF current_section \in {"ingredientes", "modo_preparo", "dicas"}
                      THEN [recipe EXCEPT ![current_section] = Append(@, strip(drop(line, 2)))]
                      ELSE recipe,
                      current_section)
             ELSE IF numbered(line)
             THEN parse_lines(rest,
                      IF current_section = "modo_preparo"
                      THEN [recipe EXCEPT !.modo_preparo =
                               Append(@, strip(drop(line, leading_digits(line) + 2)))]
                      ELSE recipe,
                      current_section)
             ELSE parse_lines(rest,
                      IF current_section = "harmonizacao"
                      THEN [recipe EXCEPT !.harmonizacao = line]
                      ELSE recipe,
                      current_section)

parse_markdown_recipe(content) ==
    LET recipe == parse_lines(split(content, "\n"),
                              [t |-> "recipe", titulo |-> <<>>, ingredientes |-> <<>>,
                               modo_preparo |-> <<>>, dicas |-> <<>>, harmonizacao |-> <<>>],
                              NoSection)
    IN  [recipe EXCEPT !.ingredientes = join(<<"\n">>, @),
                       !.modo_preparo = join(<<"\n">>, @)]

MaxMdLines == 4

(* The lines of the documents: a title, the headings of three sections,   *)
(* a heading that names no section, a bullet item and a numbered item.    *)
MdLines ==
    {<<"#", " ", "T">>,
     <<"#", "#", " ", "I">> \o Tail(kw_ingredientes),
     <<"#", "#", " ", "P">> \o Tail(kw_preparo),
     <<"#", "#", " ", "D">> \o Tail(kw_dicas),
     <<"#", "#", " ", "N", "o", "t", "a", "s">>,
     <<"-", " ", "a">>,
     <<"1", ".", " ", "b">>}

MdContents == {join(<<"\n">>, lines) : lines \in SeqsUpTo(MdLines, MaxMdLines)}

ParseMarkdownRecipe ==
    /\ stage = "markdown"
    /\ res' = parse_markdown_recipe(arg)
    /\ stage' = "parsed"
    /\ UNCHANGED <<catalog, origin, nextId, last, cache, now, arg, found, sqlite, session>>

InitImport ==
    /\ CatalogIdle
    /\ arg \in MdContents
    /\ res = NotRun
    /\ stage = "markdown"

NextImport == ParseMarkdownRecipe

SpecImport == InitImport /\ [][NextImport]_vars

IsHeading(line) == startswith(line, <<"#", "#", " ">>)

(* The section a heading names by itself, NoSection when it names none. *)
NamedBy(heading) == section_of(lower(strip(drop(heading, 3))), NoSection)

(* Line n is a list item that the section sec takes (bullets go to the    *)
(* three lists, numbered items to the steps), and the nearest '## '       *)
(* heading before it names sec.                                            *)
AttributedTo(lines, n, sec) ==
    /\ \/ bulleted(lines[n])
       \/ numbered(lines[n]) /\ sec = "modo_preparo"
    /\ \E h \in 1..(n - 1) :
           /\ IsHeading(lines[h])
           /\ \A m \in (h + 1)..(n - 1) : ~IsHeading(lines[m])
           /\ NamedBy(lines[h]) = sec

ItemText(line) ==
    IF bulleted(line) THEN strip(drop(line, 2))
    ELSE strip(drop(line, leading_digits(line) + 2))

ItemsUnder(lines, sec) ==
    LET at == SelectSeq([n \in 1..Len(lines) |-> n], LAMBDA n : AttributedTo(lines, n, sec))
    IN  [k \in 1..Len(at) |-> ItemText(lines[at[k]])]

(* C29: parse_markdown_recipe gives each list item to the section named   *)
(* by the nearest '## ' heading before it and to no other: the            *)
(* ingredients, the steps and the tips are exactly the items under their  *)
(* own headings, and an item under a heading that names no section is in  *)
(* none of them.                                                           *)
C29_ItemsUnderNearestHeading ==
    stage = "parsed" =>
        LET lines == split(arg, "\n")
        IN  /\ res.ingredientes = join(<<"\n">>, ItemsUnder(lines, "ingredientes"))
            /\ res.modo_preparo = join(<<"\n">>, ItemsUnder(lines, "modo_preparo"))
            /\ res.dicas = ItemsUnder(lines, "dicas")

----------------------------------------------------------------------------
(* The chat turn of src/main.py: classify_message, extract_search_terms    *)
(* and process_user_input over st.session_state.                           *)

greetings ==
    <<<<"o", "i">>,
      <<"o", "l", "á">>,
      <<"o", "l", "a">>,
      <<"b", "o", "m", " ", "d", "i", "a">>,
      <<"b", "o", "a", " ", "t", "a", "r", "d", "e">>,
      <<"b", "o", "a", " ", "n", "o", "i", "t", "e">>,
      <<"h", "e", "y">>,
      <<"e", "i">>>>

help_patterns ==
    <<<<"c", "o", "m", "o">>,
      <<"a", "j", "u", "d", "a">>,
      <<"p", "o", "d", "e", " ", "m", "e", " ", "a", "j", "u", "d", "a", "r">>,
      <<"o", " ", "q", "u", "e", " ", "v", "o", "c", "ê", " ", "f", "a", "z">>,
      <<"q", "u", "a", "i", "s", " ", "s", "ã", "o">>>>

common_phrases ==
    <<<<"t", "e", "m", " ", "a", "l", "g", "u", "m", "a", " ", "r", "e", "c", "e", "i", "t", "a">>,
      <<"t", "e", "m", " ", "r", "e", "c", "e", "i", "t", "a">>,
      <<"s", "a", "b", "e", " ", "f", "a", "z", "e", "r">>,
      <<"c", "o", "m", "o", " ", "f", "a", "z", "e", "r">>,
      <<"t", "e", "m", " ", "c", "o", "m", "o", " ", "f", "a", "z", "e", "r">>>>

prepositions == <<<<" ", "d", "e", " ">>,
                 <<" ", "d", "o", " ">>,
                 <<" ", "d", "a", " ">>,
                 <<" ", "c", "o", "m", " ">>>>

(* classify_message: both branches after the help patterns return          *)
(* "recipe_search".                                                        *)
classify_message(message) ==
    LET text == strip(lower(message))
    IN  IF (\E n \in DOMAIN greetings : startswith(text, greetings[n]))
               /\ Len(split_ws(text)) <= 3
        THEN "greeting"
        ELSE IF \E n \in DOMAIN help_patterns : Contains(text, help_patterns[n])
             THEN "help"
             ELSE "recipe_search"

(* s.replace(old, new) *)
RECURSIVE replace(_, _, _)
replace(text, old, new) ==
    IF text = <<>> THEN <<>>
    ELSE IF startswith(text, old) THEN new \o replace(drop(text, Len(old)), old, new)
    ELSE <<Head(text)>> \o replace(Tail(text), old, new)

(* The loop over common_phrases: the first phrase the prompt starts with   *)
(* is cut off.                                                             *)
RECURSIVE without_phrase(_, _)
without_phrase(prompt, n) ==
    IF n > Len(common_phrases) THEN prompt
    ELSE IF startswith(prompt, common_phrases[n])
         THEN strip(drop(prompt, Len(common_phrases[n])))
         ELSE without_phrase(prompt, n + 1)

(* The loop over prepositions: each one found is replaced by a blank. *)
RECURSIVE without_prepositions(_, _)
without_prepositions(prompt, n) ==
    IF n > Len(prepositions) THEN prompt
    ELSE without_prepositions(
             IF Contains(prompt, prepositions[n])
             THEN replace(prompt, prepositions[n], <<" ">>)
             ELSE prompt,
             n + 1)

extract_search_terms(prompt) ==
    LET cut == without_prepositions(without_phrase(lower(prompt), 1), 1)
        spaced == [n \in 1..Len(cut) |->
                      IF isalnum(cut[n]) \/ isspace(cut[n]) THEN cut[n] ELSE " "]
    IN  strip(join(<<" ">>, split_ws(spaced)))

Message(role, content) == [role |-> role, content |-> content]

(* The fixed replies of process_user_input, each text shortened to its    *)
(* opening words and held as one piece; the reply to a search with        *)
(* results carries their number.                                           *)
GreetingReply == <<"Olá! Sou a Chef Michelle">>
HelpReply == <<"Posso ajudar você de várias formas!">>
FoundReply(receitas) ==
    <<"Encontrei ">> \o id_text(Len(receitas))
        \o <<IF Len(receitas) = 1 THEN " receita" ELSE " receitas">>
NotFoundReply == <<"Não encontrei nenhuma receita">>

(* What call_openai_api does: it returns the content of the response or    *)
(* raises.                                                                 *)
LlmOutcomes == {[raises |-> TRUE, content |-> <<>>], [raises |-> FALSE, content |-> <<"r">>]}

(* process_user_input answering a search without results only once the     *)
(* generated recipe has come back.                                         *)
process_user_input_answering_late(state, rows, raises, llm) ==
    LET prompt == state.user_input
        asked == Append(state.messages, Message("user", prompt))
        receitas == buscar_receitas_por_texto(rows, extract_search_terms(prompt), raises).value
    IN  IF prompt = <<>> THEN state
        ELSE [user_input |-> <<>>,
              messages |->
                  IF classify_message(prompt) = "greeting"
                  THEN Append(asked, Message("assistant", GreetingReply))
                  ELSE IF classify_message(prompt) = "help"
                  THEN Append(asked, Message("assistant", HelpReply))
                  ELSE IF receitas # <<>>
                  THEN Append(asked, Message("assistant", FoundReply(receitas)))
                  ELSE IF llm.raises
                  THEN asked
                  ELSE asked \o <<Message("assistant", NotFoundReply),
                                  Message("assistant", llm.content)>>]

(* process_user_input on st.session_state: nothing for an empty input;     *)
(* otherwise the input is cleared, the user message appended and, by the   *)
(* kind of message, the greeting, the help text, the number of recipes     *)
(* found, or the notice that none was found followed by the generated      *)
(* recipe.  An exception (of render_recipe_preview after the recipes were  *)
(* announced, of call_openai_api after the notice) ends the handler in its *)
(* except clause, which appends nothing.                                   *)
process_user_input(state, rows, raises, llm) ==
    LET prompt == state.user_input
        asked == Append(state.messages, Message("user", prompt))
        receitas == buscar_receitas_por_texto(rows, extract_search_terms(prompt), raises).value
    IN  IF prompt = <<>> THEN state
        ELSE [user_input |-> <<>>,
              messages |->
                  IF classify_message(prompt) = "greeting"
                  THEN Append(asked, Message("assistant", GreetingReply))
                  ELSE IF classify_message(prompt) = "help"
                  THEN Append(asked, Message("assistant", HelpReply))
                  ELSE IF receitas # <<>>
                  THEN Append(asked, Message("assistant", FoundReply(receitas)))
                  ELSE IF llm.raises
                  THEN Append(asked, Message("assistant", NotFoundReply))
                  ELSE asked \o <<Message("assistant", NotFoundReply),
                                  Message("assistant", llm.content)>>]

MaxTurns == 2

(* What the user types: nothing, a blank, a greeting, a call for help, the *)
(* title of a stored recipe, a question about it, and a word no recipe     *)
(* holds.                                                                  *)
Prompts ==
    {<<>>, <<" ">>, <<"O", "i">>, <<"a", "j", "u", "d", "a">>, <<"b", "o">>,
     <<"t", "e", "m", " ", "r", "e", "c", "e", "i", "t", "a", " ", "d", "e", " ", "b", "o", "?">>, <<"z", "z">>}

UserTurns(messages) == {k \in 1..Len(messages) : messages[k].role = "user"}

(* The user changes the text field. *)
TextInput(prompt) ==
    /\ session' = [session EXCEPT !.user_input = prompt]
    /\ last' = Call("text_input", prompt, NoRaises, <<>>, TRUE, 0, FALSE)
    /\ UNCHANGED <<catalog, origin, nextId, cache, now, arg, res, stage, found, sqlite>>

(* The on_change callback of the text field. *)
ProcessUserInput(raises, llm) ==
    /\ Cardinality(UserTurns(session.messages)) < MaxTurns
    /\ session' = process_user_input(session, catalog, raises, llm)
    /\ last' = Call("process_user_input", session.user_input, raises, <<>>, TRUE, 0, FALSE)
    /\ UNCHANGED <<catalog, origin, nextId, cache, now, arg, res, stage, found, sqlite>>

InitChat == Init

NextChat ==
    \/ \E receita \in CacheAddInputs, raises \in RaiseOnce : AdicionarReceita(receita, raises)
    \/ \E prompt \in Prompts : TextInput(prompt)
    \/ \E raises \in RaiseOnce, llm \in LlmOutcomes : ProcessUserInput(raises, llm)

SpecChat == InitChat /\ [][NextChat]_vars

(* The history does not end with a user message. *)
Answered(messages) == messages = <<>> \/ messages[Len(messages)].role = "assistant"

(* What one call of the handler does to the session. *)
TurnEffect ==
    last'.op = "process_user_input" =>
        IF session.user_input = <<>>
        THEN session'.messages = session.messages
        ELSE /\ session'.user_input = <<>>
             /\ Len(session'.messages) >= Len(session.messages) + 2
             /\ SubSeq(session'.messages, 1, Len(session.messages)) = session.messages
             /\ session'.messages[Len(session.messages) + 1]
                    = Message("user", session.user_input)
             /\ \A k \in (Len(session.messages) + 2)..Len(session'.messages) :
                    session'.messages[k].role = "assistant"

(* C30: over any sequence of turns, a call of process_user_input with an   *)
(* empty input leaves the message history unchanged; a call with a         *)
(* non-empty input clears the input field and appends exactly one user    *)
(* message followed by at least one assistant message, also when the       *)
(* search or the call of the model fails; so the history never ends with   *)
(* an unanswered user message.                                             *)
C30_EveryTurnAnswered == [][TurnEffect]_vars /\ []Answered(session.messages)

(* A turn whose search found nothing and whose call of the model failed    *)
(* was answered, after an earlier turn.                                    *)
C30_Witness ==
    /\ last.op = "process_user_input"
    /\ last.query # <<>>
    /\ Cardinality(UserTurns(session.messages)) >= 2
    /\ session.messages[Len(session.messages)] = Message("assistant", NotFoundReply)

----------------------------------------------------------------------------
(* clean_search_query on its own.                                          *)

Pieces == {<<"o">>, <<"q", "u", "e">>, <<" ">>, <<"?">>, <<"B", "o">>, <<"B", "ó">>}

RECURSIVE concat(_)
concat(parts) == IF parts = <<>> THEN <<>> ELSE Head(parts) \o concat(Tail(parts))

QueryInputs == {concat(parts) : parts \in SeqsUpTo(Pieces, MaxPieces)}

CleanSearchQuery ==
    /\ stage = "query"
    /\ res' = clean_search_query(arg)
    /\ stage' = "cleaned"
    /\ UNCHANGED <<catalog, origin, nextId, last, cache, now, arg, found, sqlite, session>>

NormalizeText ==
    /\ stage = "query"
    /\ res' = normalize_text(arg)
    /\ stage' = "normalized"
    /\ UNCHANGED <<catalog, origin, nextId, last, cache, now, arg, found, sqlite, session>>

InitQuery ==
    /\ CatalogIdle
    /\ arg \in QueryInputs
    /\ res = <<>>
    /\ stage = "query"

NextQuery == CleanSearchQuery \/ NormalizeText

SpecQuery == InitQuery /\ [][NextQuery]_vars

AllStopWords(text) ==
    LET words == split_ws(normalize_text(text))
    IN  words # <<>> /\ \A n \in 1..Len(words) : words[n] \in stop_words

(* C10: clean_search_query returns no empty text for a non-empty input    *)
(* (stated for the inputs that are not blank), and for an input made of   *)
(* stop words only it returns the normalized input.                       *)
C10_NeverEmpty ==
    stage = "cleaned" =>
        /\ strip(arg) # <<>> => res # <<>>
        /\ AllStopWords(arg) => res = normalize_text(arg)

(* The text with the diacritics removed from its letters. *)
unaccented(text) ==
    [n \in 1..Len(text) |->
        CASE text[n] = "ó" -> "o"
          [] text[n] = "Ó" -> "O"
          [] OTHER -> text[n]]

(* C18: normalize_text lower-cases, trims and removes diacritics: a text  *)
(* and the same text without its accents normalize to the same string.    *)
C18_DiacriticsRemoved ==
    stage = "normalized" => res = lower(strip(unaccented(arg)))

=============================================================================
